---- MODULE Spec2Model ----
(***************************************************************************)
(* RAuthp: a command-line TOTP generator that keeps its shared secrets in  *)
(* the desktop keyring.  The model covers the secret store                 *)
(* (src/src/keyring.rs), the command handlers and the Base32 validator     *)
(* (src/src/main.rs) and the time handling of the OTP generator            *)
(* (src/src/otp.rs).                                                       *)
(*                                                                         *)
(* Strings are sequences of one-character strings.  The keyring service    *)
(* (crate oo7) is the environment: an item is a set of attributes plus a   *)
(* payload of bytes, search_items returns the items whose attributes       *)
(* include the requested ones, create_item with replace = false adds an    *)
(* item, delete removes every matching item, and each call may fail.       *)
(* Of generate() the model keeps the clock readings, the counter and the   *)
(* validity; the HMAC-SHA1 value computed from the counter is left out.    *)
(***************************************************************************)
EXTENDS Integers, Sequences, FiniteSets, Bags, TLC

VARIABLES
    items,      \* the keyring: a bag of items [attrs, secret]
    op,         \* the last operation and its arguments
    res,        \* what the last operation returned
    exit,       \* exit code of the last command (-1: no command has run)
    out,        \* gen: per listed secret, <<name, outcome>> in listing order
    pc,         \* concurrent writers: position of each process inside store_secret
    parg,       \* concurrent writers: the (name, secret) each process stores
    pres,       \* concurrent writers: what store_secret returned to each process
    input,      \* validator: the string under test
    valid,      \* validator: what check_base_32_string returned for it
    clock,      \* generator: the wall clock, in seconds since the epoch
    gpc,        \* generator: position inside generate()
    gen         \* generator: interval, counter, validity and the two readings
                \* of the clock they come from (time, again)

vars == <<items, op, res, exit, out, pc, parg, pres, input, valid, clock, gpc, gen>>

storeVars == <<items, op, res, exit, out>>
procVars  == <<pc, parg, pres>>
b32Vars   == <<input, valid>>
otpVars   == <<clock, gpc, gen>>

-----------------------------------------------------------------------------
(* Bounds *)

MaxItems == 2        \* items the keyring holds at most
MaxLen == 16         \* validator: length of the longest string tried
FreeLen == 6         \* validator: every string up to this length is tried
MaxRuns == 3         \* validator: longer strings have at most this many runs
MaxClock == 60       \* generator: the clock runs from 0 to this second

-----------------------------------------------------------------------------
(* Strings *)

Range(s) == {s[i] : i \in 1..Len(s)}

Lower == <<"a","b","c","d","e","f","g","h","i","j","k","l","m",
           "n","o","p","q","r","s","t","u","v","w","x","y","z">>

Upper == <<"A","B","C","D","E","F","G","H","I","J","K","L","M",
           "N","O","P","Q","R","S","T","U","V","W","X","Y","Z">>

\* str::to_uppercase, character by character
UpperChar(c) ==
    IF \E i \in 1..Len(Lower) : Lower[i] = c
    THEN Upper[CHOOSE i \in 1..Len(Lower) : Lower[i] = c]
    ELSE c

to_uppercase(s) == [i \in 1..Len(s) |-> UpperChar(s[i])]

\* A byte that is no valid UTF-8 on its own
BadByte == "0xFF"

\* String::from_utf8(bytes).is_ok()
from_utf8_ok(bytes) == BadByte \notin Range(bytes)

-----------------------------------------------------------------------------
(* Base32 validator, main.rs *)

Base32Alphabet == Range(Upper) \cup {"2","3","4","5","6","7"}

\* BASE32_REGEX = ^[A-Z2-7]+=*$ : one or more alphabet characters, then only '='
BASE32_REGEX_is_match(s) ==
    \E k \in 1..Len(s) :
        /\ \A i \in 1..k : s[i] \in Base32Alphabet
        /\ \A i \in (k+1)..Len(s) : s[i] = "="

\* str::find("="): zero-based index of the first '=', or -1 for None
find_eq(s) ==
    IF \E i \in 1..Len(s) : s[i] = "="
    THEN (CHOOSE i \in 1..Len(s) : s[i] = "=" /\ \A j \in 1..(i-1) : s[j] # "=") - 1
    ELSE -1

check_base_32_string(s) ==
    IF ~BASE32_REGEX_is_match(s) THEN FALSE
    ELSE IF Len(s) % 8 # 0 THEN FALSE
    ELSE IF find_eq(s) >= 0
         THEN (find_eq(s) % 8) \in {2, 4, 5, 7}
         ELSE TRUE

\* Base32Upper::decode_vec(s).is_ok(): RFC 4648 with padding: complete quanta,
\* padding in the last quantum only, after 2, 4, 5 or 7 data characters.
\* (The model's data characters carry zero bits, so trailing bits are zero.)
decode_vec_ok(s) ==
    /\ Len(s) % 8 = 0
    /\ \E k \in 0..Len(s) :
        /\ \A i \in 1..k : s[i] \in Base32Alphabet
        /\ \A i \in (k+1)..Len(s) : s[i] = "="
        /\ \/ k = Len(s)
           \/ /\ Len(s) - k < 8
              /\ (k % 8) \in {2, 4, 5, 7}

-----------------------------------------------------------------------------
(* Secret store, keyring.rs *)

ATTRIBUTE_KEY == "rauthp_secret_id"
COMMON_ATTRIBUTE_KEY == "application_id"
COMMON_ATTRIBUTE_VALUE == "25fa6cf5-ba20-481d-b382-f3acab4da54e"

\* Attribute maps are functions from attribute keys to values
secrets_common_attribute == [k \in {COMMON_ATTRIBUTE_KEY} |-> COMMON_ATTRIBUTE_VALUE]

secret_attributes(name) ==
    [k \in {COMMON_ATTRIBUTE_KEY, ATTRIBUTE_KEY} |->
        IF k = ATTRIBUTE_KEY THEN name ELSE COMMON_ATTRIBUTE_VALUE]

\* Values returned by the store
OkUnit == [kind |-> "Ok"]
OkNone == [kind |-> "OkNone"]
OkSome(n, s) == [kind |-> "OkSome", name |-> n, secret |-> s]
OkList(l) == [kind |-> "OkList", list |-> l]
Err(m) == [kind |-> "Err", msg |-> m]
Panic == [kind |-> "Panic"]

\* e.to_string() of an error of the keyring service
BackendMsg == "keyring service error"

Matches(item, attributes) ==
    \A k \in DOMAIN attributes :
        k \in DOMAIN item.attrs /\ item.attrs[k] = attributes[k]

\* The part of a bag whose elements are in S
Restrict(bag, S) == [e \in BagToSet(bag) \cap S |-> bag[e]]

\* oo7::Keyring::search_items: the bag of matching items
search_items(its, attributes) ==
    Restrict(its, {it \in BagToSet(its) : Matches(it, attributes)})

\* create_item called with replace = true: the new item takes the place of
\* the items that carry the same attributes
create_item_replace(its, name, attributes, secret) ==
    [it \in {i \in BagToSet(its) : i.attrs # attributes} |-> its[it]]
        (+) SetToBag({[attrs |-> attributes, secret |-> secret]})

\* oo7::Keyring::create_item(label, attributes, secret, replace = false):
\* one more item, whatever the keyring holds already
create_item(its, name, attributes, secret) ==
    its (+) SetToBag({[attrs |-> attributes, secret |-> secret]})

\* oo7::Keyring::delete: every item matching the attributes goes
delete(its, attributes) ==
    Restrict(its, {it \in BagToSet(its) : ~Matches(it, attributes)})

\* The vectors in which the service may return a result: its items in any order
Orders(bag) ==
    {v \in [1..BagCardinality(bag) -> BagToSet(bag)] :
        \A e \in BagToSet(bag) :
            Cardinality({i \in 1..BagCardinality(bag) : v[i] = e}) = bag[e]}

\* Secret::new(name, bytes): from_utf8(..).unwrap() panics on invalid UTF-8
Secret_new(name, bytes) ==
    IF from_utf8_ok(bytes) THEN OkSome(name, bytes) ELSE Panic

\* get_secret without its check for more than one result
get_secret_first(its, name, searchOk, failAt) ==
    LET request_result == search_items(its, secret_attributes(name))
    IN  IF ~searchOk THEN Err(BackendMsg)
        ELSE IF BagCardinality(request_result) = 0 THEN OkNone
        ELSE IF failAt = 1 THEN Err("Failed the value of the secret")
        ELSE Secret_new(name, (CHOOSE it \in BagToSet(request_result) : TRUE).secret)

\* searchOk: search_items succeeds; failAt: index (in the result) of the item
\* whose secret() call fails, 0 for none
get_secret(its, name, searchOk, failAt) ==
    LET request_result == search_items(its, secret_attributes(name))
    IN  IF ~searchOk THEN Err(BackendMsg)
        ELSE IF BagCardinality(request_result) = 0 THEN OkNone
        ELSE IF BagCardinality(request_result) > 1 THEN Err("Too many results")
        ELSE IF failAt = 1 THEN Err("Failed the value of the secret")
        ELSE Secret_new(name, (CHOOSE it \in BagToSet(request_result) : TRUE).secret)

\* store_create tagging the new item with the application scope only
store_create_untagged(its, name, secret, createOk) ==
    IF createOk
    THEN [res |-> OkUnit,
          items |-> create_item(its, name, secrets_common_attribute, secret)]
    ELSE [res |-> Err(BackendMsg), items |-> its]

\* The insert half of store_secret (lines 103-110)
store_create(its, name, secret, createOk) ==
    IF createOk
    THEN [res |-> OkUnit,
          items |-> create_item(its, name, secret_attributes(name), secret)]
    ELSE [res |-> Err(BackendMsg), items |-> its]

\* store_after_lookup without the test s.is_some()
store_after_lookup_unchecked(its, g, name, secret, createOk) ==
    IF g.kind = "Panic" THEN [res |-> Panic, items |-> its]
    ELSE IF g.kind = "Err" THEN [res |-> g, items |-> its]
    ELSE store_create(its, name, secret, createOk)

\* What store_secret does with the outcome g of its lookup (lines 92-101)
store_after_lookup(its, g, name, secret, createOk) ==
    IF g.kind = "Panic" THEN [res |-> Panic, items |-> its]
    ELSE IF g.kind = "OkSome"
         THEN [res |-> Err("Secret already exists"), items |-> its]
    ELSE IF g.kind = "Err" THEN [res |-> g, items |-> its]
    ELSE store_create(its, name, secret, createOk)

store_secret(its, name, secret, searchOk, failAt, createOk) ==
    store_after_lookup(its, get_secret(its, name, searchOk, failAt),
                       name, secret, createOk)

\* delete_secret asking for an attribute key no item carries
delete_secret_wrong_key(its, name, deleteOk) ==
    IF deleteOk
    THEN [res |-> OkUnit,
          items |-> delete(its, [k \in {COMMON_ATTRIBUTE_KEY, "secret_id"} |->
                                    IF k = "secret_id" THEN name ELSE COMMON_ATTRIBUTE_VALUE])]
    ELSE [res |-> Err(BackendMsg), items |-> its]

delete_secret(its, name, deleteOk) ==
    IF deleteOk
    THEN [res |-> OkUnit, items |-> delete(its, secret_attributes(name))]
    ELSE [res |-> Err(BackendMsg), items |-> its]

\* The closure of get_all_secrets applied to one element of the result
list_elt(elt, secretOk, attrOk) ==
    IF ~secretOk THEN Err("Failed to retrieve the value of a secret")
    ELSE IF ~attrOk THEN Err("Failed to retrive the name of a secret")
    ELSE IF ATTRIBUTE_KEY \notin DOMAIN elt.attrs
         THEN Err("Unexpected data retrieved from the keyring")
    ELSE Secret_new(elt.attrs[ATTRIBUTE_KEY], elt.secret)

\* map(..).collect::<Result<Vec<_>, _>>() evaluates the elements in order and
\* stops at the first that is no Ok: an Err is returned, a panic unwinds.
\* secrets: the search result in the order the service returned it.
collect(secrets, failAt, attrFailAt) ==
    LET r(i) == list_elt(secrets[i], failAt # i, attrFailAt # i)
        bad  == {i \in 1..Len(secrets) : r(i).kind # "OkSome"}
    IN  IF bad = {}
        THEN OkList([i \in 1..Len(secrets) |->
                        [name |-> r(i).name, secret |-> r(i).secret]])
        ELSE r(CHOOSE i \in bad : \A j \in bad : i <= j)

\* secrets: the vector search_items(secrets_common_attribute) returned, one
\* of Orders(search_items(its, secrets_common_attribute))
get_all_secrets(its, searchOk, secrets, failAt, attrFailAt) ==
    IF ~searchOk THEN Err(BackendMsg)
    ELSE collect(secrets, failAt, attrFailAt)

-----------------------------------------------------------------------------
(* Command handlers, main.rs *)

\* OtpGenerator::generate as handle_gen_cmd sees it: Hmac::new_from_slice
\* decides between Ok(code) and Err(())
generate_ok(hmacOk) == hmacOk

\* The filter closure of handle_gen_cmd applied to one listed secret
gen_elt(elt, hmacOk) ==
    IF ~decode_vec_ok(elt.secret) THEN "decode error"
    ELSE IF generate_ok(hmacOk) THEN "code"
    ELSE "generation error"

\* ret is the handler's return value, or "panic" when it unwinds
handle_gen_cmd(its, searchOk, secrets, failAt, attrFailAt, hmacFailAt) ==
    LET all_secrets == get_all_secrets(its, searchOk, secrets, failAt, attrFailAt)
    IN  IF all_secrets.kind = "Panic"
        THEN [ret |-> "panic", res |-> all_secrets, out |-> <<>>, items |-> its]
        ELSE IF all_secrets.kind = "Err"
        THEN [ret |-> "false", res |-> all_secrets, out |-> <<>>, items |-> its]
        ELSE LET l == all_secrets.list
                 o == [i \in 1..Len(l) |->
                         [name |-> l[i].name, outcome |-> gen_elt(l[i], hmacFailAt # i)]]
                 count_success == Cardinality({i \in 1..Len(l) : o[i].outcome = "code"})
             IN  [ret |-> IF count_success = Len(l) THEN "true" ELSE "false",
                  res |-> all_secrets, out |-> o, items |-> its]

handle_add_cmd(its, name, text, searchOk, failAt, createOk) ==
    LET secret == to_uppercase(text)
        r == store_secret(its, name, secret, searchOk, failAt, createOk)
    IN  IF ~check_base_32_string(secret)
        THEN [ret |-> "false", res |-> [kind |-> "Invalid"], out |-> <<>>, items |-> its]
        ELSE IF r.res.kind = "Panic"
        THEN [ret |-> "panic", res |-> r.res, out |-> <<>>, items |-> its]
        ELSE [ret |-> "true", res |-> r.res, out |-> <<>>, items |-> r.items]

handle_del_cmd(its, name, deleteOk) ==
    LET r == delete_secret(its, name, deleteOk)
    IN  [ret |-> IF r.res.kind = "Ok" THEN "true" ELSE "false",
         res |-> r.res, out |-> <<>>, items |-> r.items]

\* main: exit(1) when Keyring::new() fails or the handler returns false; a
\* panic ends the process with Rust's exit code 101; otherwise 0.
main(its, connectOk, handled) ==
    IF ~connectOk
    THEN [exit |-> 1, res |-> Err(BackendMsg), out |-> <<>>, items |-> its]
    ELSE [exit |-> IF handled.ret = "true" THEN 0
                   ELSE IF handled.ret = "false" THEN 1 ELSE 101,
          res |-> handled.res, out |-> handled.out, items |-> handled.items]

-----------------------------------------------------------------------------
(* Inputs *)

Names == {"alice", "bob"}

TextMY == <<"M","Y","=","=","=","=","=","=">>
TextLowerMY == <<"m","y","=","=","=","=","=","=">>
TextShort == <<"A","A","A","A">>

\* Secrets given to store_secret directly (it does not validate)
StoreTexts == {TextMY, TextShort}

\* Secrets typed on the add command line
AddTexts == {TextLowerMY, TextShort}

\* Items other programs (or the user, with the keyring's own tools) may put
\* into the shared keyring: no name attribute, another application's item,
\* a payload that is no UTF-8 text, a name this tool already uses
OtherApp == [k \in {COMMON_ATTRIBUTE_KEY, ATTRIBUTE_KEY} |->
                IF k = ATTRIBUTE_KEY THEN "alice" ELSE "another-application"]

ForeignItems ==
    {[attrs |-> secrets_common_attribute, secret |-> TextMY],
     [attrs |-> OtherApp, secret |-> TextMY]}
        \cup {[attrs |-> secret_attributes(n), secret |-> s] :
                    n \in Names, s \in {TextMY, <<BadByte>>}}

-----------------------------------------------------------------------------
(* Actions on one keyring, one operation at a time *)

\* Where the keyring service fails during an operation.  One fault is enough:
\* every handler returns at the first failing call, so later ones are not made.
NoFault == <<"none", 0>>

StoreFaults == {NoFault, <<"search", 0>>, <<"secret", 1>>, <<"create", 0>>}
GetFaults == {NoFault, <<"search", 0>>, <<"secret", 1>>}
DeleteFaults == {NoFault, <<"delete", 0>>}
ListFaults == {NoFault, <<"search", 0>>}
                 \cup {<<k, i>> : k \in {"secret", "attributes"}, i \in 1..MaxItems}
Connect == {<<"connect", 0>>}

FailAt(f, k) == IF f[1] = k THEN f[2] ELSE 0

\* The entries of the keyring its that carry the application-scope tag
InScope(its) ==
    {it \in BagToSet(its) :
        /\ COMMON_ATTRIBUTE_KEY \in DOMAIN it.attrs
        /\ it.attrs[COMMON_ATTRIBUTE_KEY] = COMMON_ATTRIBUTE_VALUE}

\* Those among them that carry the name tag n
Named(its, n) ==
    {it \in InScope(its) : ATTRIBUTE_KEY \in DOMAIN it.attrs /\ it.attrs[ATTRIBUTE_KEY] = n}

\* How many entries of its carry the application-scope tag and the name tag n
NameCount(its, n) == BagCardinality([it \in Named(its, n) |-> its[it]])

\* The record of a call: its arguments, whether the keyring service answered
\* every request, and how many entries carried the name when it was made
Called(cmd, name, secret, f) ==
    [cmd |-> cmd, name |-> name, secret |-> secret, working |-> f = NoFault,
     matched |-> NameCount(items, name)]

\* A library call: no exit code
Returns(c, r) ==
    /\ BagCardinality(r.items) <= MaxItems
    /\ items' = r.items
    /\ op' = c
    /\ res' = r.res
    /\ exit' = -1
    /\ out' = <<>>
    /\ UNCHANGED <<procVars, b32Vars, otpVars>>

\* A whole run of the program
Exits(c, m) ==
    /\ BagCardinality(m.items) <= MaxItems
    /\ items' = m.items
    /\ op' = c
    /\ res' = m.res
    /\ exit' = m.exit
    /\ out' = m.out
    /\ UNCHANGED <<procVars, b32Vars, otpVars>>

StoreSecret(name, secret) ==
    \E f \in StoreFaults :
        Returns(Called("store", name, secret, f),
                store_secret(items, name, secret, f[1] # "search",
                             FailAt(f, "secret"), f[1] # "create"))

DeleteSecret(name) ==
    \E f \in DeleteFaults :
        Returns(Called("delete", name, <<>>, f),
                delete_secret(items, name, f[1] # "delete"))

GetSecret(name) ==
    \E f \in GetFaults :
        Returns(Called("get", name, <<>>, f),
                [res |-> get_secret(items, name, f[1] # "search", FailAt(f, "secret")),
                 items |-> items])

GetAllSecrets ==
    \E f \in ListFaults,
       secrets \in Orders(search_items(items, secrets_common_attribute)) :
        Returns(Called("list", "", <<>>, f),
                [res |-> get_all_secrets(items, f[1] # "search", secrets,
                                         FailAt(f, "secret"), FailAt(f, "attributes")),
                 items |-> items])

AddCmd(name, text) ==
    \E f \in StoreFaults \cup Connect :
        Exits(Called("add", name, text, f),
              main(items, f[1] # "connect",
                   handle_add_cmd(items, name, text, f[1] # "search",
                                  FailAt(f, "secret"), f[1] # "create")))

DelCmd(name) ==
    \E f \in DeleteFaults \cup Connect :
        Exits(Called("del", name, <<>>, f),
              main(items, f[1] # "connect",
                   handle_del_cmd(items, name, f[1] # "delete")))

GenCmd ==
    \E f \in ListFaults \cup Connect \cup {<<"hmac", i>> : i \in 1..MaxItems},
       secrets \in Orders(search_items(items, secrets_common_attribute)) :
        Exits(Called("gen", "", <<>>, f),
              main(items, f[1] # "connect",
                   handle_gen_cmd(items, f[1] # "search", secrets, FailAt(f, "secret"),
                                  FailAt(f, "attributes"), FailAt(f, "hmac"))))

\* Another program writes an item into the shared keyring
ExternalWrite ==
    \E it \in ForeignItems :
        Returns(Called("external", "", <<>>, NoFault),
                [res |-> OkUnit, items |-> items (+) SetToBag({it})])

StoreInit ==
    /\ items = EmptyBag
    /\ op = Called("none", "", <<>>, NoFault)
    /\ res = OkUnit
    /\ exit = -1
    /\ out = <<>>

ProcInit ==
    /\ pc = <<"idle", "idle">>
    /\ parg = <<[name |-> "", secret |-> <<>>, found |-> OkNone],
                [name |-> "", secret |-> <<>>, found |-> OkNone]>>
    /\ pres = <<OkNone, OkNone>>

B32Init ==
    /\ input = <<>>
    /\ valid = FALSE

OtpInit ==
    /\ clock = 0
    /\ gpc = "idle"
    /\ gen = [interval |-> 1, time |-> 0, counter |-> 0, validity |-> 0, again |-> 0]

Init == StoreInit /\ ProcInit /\ B32Init /\ OtpInit

Next ==
    \/ \E n \in Names, s \in StoreTexts : StoreSecret(n, s)
    \/ \E n \in Names : DeleteSecret(n)
    \/ \E n \in Names : GetSecret(n)
    \/ GetAllSecrets
    \/ \E n \in Names, t \in AddTexts : AddCmd(n, t)
    \/ \E n \in Names : DelCmd(n)
    \/ GenCmd
    \/ ExternalWrite

Spec == Init /\ [][Next]_vars

-----------------------------------------------------------------------------
(* Properties of the store and of the commands, under Spec *)

\* C1 as stated: whenever store(name, secret) is called while an entry with
\* that name exists under the application scope, it returns the
\* duplicate-name error and the persisted entries are what they were.
\* (Stated for the calls during which the keyring service answers and on
\* entries whose payload is text, where nothing but store_secret decides.)
C1_StoreOnExistingIsDuplicate ==
    [][(/\ op'.cmd = "store"
        /\ op'.working
        /\ NameCount(items, op'.name) >= 1
        /\ \A it \in Named(items, op'.name) : from_utf8_ok(it.secret))
        => (res' = Err("Secret already exists") /\ items' = items)]_vars

\* C1, amended: whenever store(name, secret) is called while an entry with
\* that name exists under the application scope, the call does not succeed
\* and the persisted entries are what they were; when the keyring service
\* answers, the error is the duplicate-name error if exactly one entry
\* matches and its payload is text (a payload that is no UTF-8 panics), and
\* "Too many results" if several match.
C1_StoreOnExistingFails ==
    [][(op'.cmd = "store" /\ NameCount(items, op'.name) >= 1)
        => /\ items' = items
           /\ res'.kind \in {"Err", "Panic"}
           /\ (op'.working /\ NameCount(items, op'.name) = 1)
                => IF \A it \in Named(items, op'.name) : from_utf8_ok(it.secret)
                   THEN res' = Err("Secret already exists")
                   ELSE res' = Panic
           /\ (op'.working /\ NameCount(items, op'.name) > 1)
                => res' = Err("Too many results")]_vars

\* C1 witness: a store on a name held by exactly one entry was refused
C1_Witness ==
    /\ op.cmd = "store"
    /\ op.matched = 1
    /\ res = Err("Secret already exists")
    /\ NameCount(items, op.name) = 1

\* C3: store(name, v) on a name with no entry succeeds, and get(name) right
\* after it returns Some(name, v), whatever other entries the keyring holds
\* (the keyring service answering every request of the two calls).
C3_RoundTrip ==
    [][(op'.cmd = "store" /\ NameCount(items, op'.name) = 0 /\ op'.working)
        => /\ res' = OkUnit
           /\ get_secret(items', op'.name, TRUE, 0) = OkSome(op'.name, op'.secret)]_vars

\* C3 witness: a store succeeded next to another entry and get finds the value
C3_Witness ==
    /\ op.cmd = "store"
    /\ op.matched = 0
    /\ res = OkUnit
    /\ BagCardinality(items) >= 2
    /\ get_secret(items, op.name, TRUE, 0) = OkSome(op.name, op.secret)

\* C4: when the keyring service answers, delete(name) returns success, no
\* entry under the application scope carries the name afterwards, get(name)
\* right after it returns None, and with no matching entry nothing changes.
C4_DeleteThenGetNone ==
    [][(op'.cmd = "delete" /\ op'.working)
        => /\ res' = OkUnit
           /\ NameCount(items', op'.name) = 0
           /\ get_secret(items', op'.name, TRUE, 0) = OkNone
           /\ NameCount(items, op'.name) = 0 => items' = items]_vars

\* C4 witness: a delete removed the entries of a name and left another entry
C4_Witness ==
    /\ op.cmd = "delete"
    /\ op.matched >= 1
    /\ res = OkUnit
    /\ items # EmptyBag
    /\ get_secret(items, op.name, TRUE, 0) = OkNone

\* C5: after add, the exit code is 1 whenever the secret is no valid Base32 or
\* the store returned an error, and it is 0 only if the secret was persisted.
C5_AddExitCode ==
    op.cmd = "add"
        => /\ ~check_base_32_string(to_uppercase(op.secret)) => exit = 1
           /\ res.kind = "Err" => exit = 1
           /\ exit = 0 => (res = OkUnit /\ NameCount(items, op.name) >= 1)

\* C6: gen attempts a code for every listed secret, and exits with 0 exactly
\* when the listing succeeded and every secret gave a code, with 1 otherwise.
C6_GenExitCode ==
    op.cmd = "gen"
        => /\ res.kind = "OkList"
                => /\ Len(out) = Len(res.list)
                   /\ \A i \in 1..Len(out) : out[i].name = res.list[i].name
           /\ exit = 0 <=> /\ res.kind = "OkList"
                           /\ \A i \in 1..Len(out) : out[i].outcome = "code"
           /\ exit \in {0, 1}

\* C7: list_all returns every entry under the application scope or an error;
\* an entry without name attribute, or whose payload is no text, makes it
\* return an error.
C7_ListAllOrNothing ==
    op.cmd = "list"
        => /\ res.kind \in {"OkList", "Err"}
           /\ res.kind = "OkList"
                => Len(res.list) = BagCardinality([it \in InScope(items) |-> items[it]])
           /\ (\E it \in InScope(items) :
                    ATTRIBUTE_KEY \notin DOMAIN it.attrs \/ ~from_utf8_ok(it.secret))
                => res.kind = "Err"

-----------------------------------------------------------------------------
(* One process, no other writer: store, delete and list only *)

SingleNames == {"alice", "bob", "carol"}

NextSingle ==
    \/ \E n \in SingleNames, s \in StoreTexts : StoreSecret(n, s)
    \/ \E n \in SingleNames : DeleteSecret(n)
    \/ GetAllSecrets

SpecSingle == Init /\ [][NextSingle]_vars

\* C2: with one process as the only writer, starting from the empty keyring,
\* no two entries under the application scope carry the same name, and a
\* listing that succeeds returns as many entries as are stored, with
\* pairwise distinct names.
C2_UniqueNames ==
    /\ \A it \in InScope(items) :
        /\ items[it] = 1
        /\ ATTRIBUTE_KEY \in DOMAIN it.attrs
        /\ NameCount(items, it.attrs[ATTRIBUTE_KEY]) = 1
    /\ op.cmd = "list"
        => /\ op.working => res.kind = "OkList"
           /\ res.kind = "OkList"
                => /\ Len(res.list) = BagCardinality(items)
                   /\ \A i, j \in 1..Len(res.list) :
                        res.list[i].name = res.list[j].name => i = j

\* C2 witness: a listing of two stored secrets returned both
C2_Witness ==
    /\ op.cmd = "list"
    /\ res.kind = "OkList"
    /\ BagCardinality(items) >= 2
    /\ Len(res.list) = BagCardinality(items)

-----------------------------------------------------------------------------
(* Two processes of the program storing into the same keyring.  store_secret
   makes two requests to the keyring service, the lookup of get_secret and
   create_item; the service serves the requests of the two in any order. *)

Procs == {1, 2}

\* Lines 92-101: the lookup and what it found
StoreLookup(p, name, secret) ==
    /\ pc[p] = "idle"
    /\ \E f \in GetFaults :
        parg' = [parg EXCEPT ![p] =
                    [name |-> name, secret |-> secret,
                     found |-> get_secret(items, name, f[1] # "search",
                                          FailAt(f, "secret"))]]
    /\ pc' = [pc EXCEPT ![p] = "checked"]
    /\ UNCHANGED <<storeVars, pres, b32Vars, otpVars>>

\* Lines 92-111 from the lookup's result on
StoreInsert(p) ==
    /\ pc[p] = "checked"
    /\ \E createOk \in BOOLEAN :
        LET r == store_after_lookup(items, parg[p].found, parg[p].name,
                                    parg[p].secret, createOk)
        IN  /\ BagCardinality(r.items) <= MaxItems
            /\ items' = r.items
            /\ pres' = [pres EXCEPT ![p] = r.res]
    /\ pc' = [pc EXCEPT ![p] = "done"]
    /\ UNCHANGED <<op, res, exit, out, parg, b32Vars, otpVars>>

NextConc ==
    \/ \E p \in Procs, n \in Names, s \in StoreTexts : StoreLookup(p, n, s)
    \/ \E p \in Procs : StoreInsert(p)

SpecConc == Init /\ [][NextConc]_vars

\* C9: when two processes store the same name and both lookups found no
\* entry, each call succeeds unless its create_item fails, and every call
\* that succeeded has persisted an entry of its own with that name: two
\* successes leave two entries carrying the same name.
C9_RaceDuplicates ==
    (/\ pc[1] = "done" /\ pc[2] = "done"
     /\ parg[1].name = parg[2].name
     /\ parg[1].found = OkNone /\ parg[2].found = OkNone)
        => /\ \A p \in Procs : pres[p] \in {OkUnit, Err(BackendMsg)}
           /\ NameCount(items, parg[1].name)
                = Cardinality({p \in Procs : pres[p] = OkUnit})

\* C9 witness: both calls returned success and two entries carry the name
C9_Witness ==
    /\ pc[1] = "done" /\ pc[2] = "done"
    /\ parg[1].name = parg[2].name
    /\ pres[1] = OkUnit /\ pres[2] = OkUnit
    /\ NameCount(items, parg[1].name) = 2

-----------------------------------------------------------------------------
(* The Base32 validator on its own.  Inputs are the upper-case strings over a
   data character, the padding character and a character outside the
   alphabet: all of them up to FreeLen characters, and up to MaxLen
   characters those made of at most MaxRuns runs of one character. *)

B32Chars == {"A", "=", "1"}

Runs(s) ==
    IF Len(s) = 0 THEN 0
    ELSE 1 + Cardinality({i \in 1..(Len(s) - 1) : s[i] # s[i + 1]})

\* The next input, one character longer, is validated
Validate(c) ==
    /\ Len(input) < MaxLen
    /\ Len(input) + 1 <= FreeLen \/ Runs(Append(input, c)) <= MaxRuns
    /\ input' = Append(input, c)
    /\ valid' = check_base_32_string(Append(input, c))
    /\ UNCHANGED <<storeVars, procVars, otpVars>>

NextB32 == \E c \in B32Chars : Validate(c)

SpecB32 == Init /\ [][NextB32]_vars

\* Data characters in the last 8 characters of s
DataInLastQuantum(s) ==
    Cardinality({i \in 1..Len(s) : i > Len(s) - 8 /\ s[i] # "="})

\* C8: the validator accepts a string exactly when it is not empty, it is
\* made of characters of [A-Z2-7] followed by zero or more '=', its length
\* is a multiple of 8 and, if it has padding, its last 8 characters hold 2, 4,
\* 5 or 7 characters that are no padding.
C8_ValidatorExact ==
    valid <=>
        /\ Len(input) > 0
        /\ \E k \in 0..Len(input) :
            /\ \A i \in 1..k : input[i] \in Base32Alphabet
            /\ \A i \in (k + 1)..Len(input) : input[i] = "="
        /\ Len(input) % 8 = 0
        /\ "=" \in Range(input) => DataInLastQuantum(input) \in {2, 4, 5, 7}

-----------------------------------------------------------------------------
(* OtpGenerator::generate against a running clock, otp.rs *)

DEFAULT_INTERVAL == 30

Intervals == {1, 2, 3, DEFAULT_INTERVAL}

\* SystemTime::now(), in whole seconds
get_time == clock

\* The clock advances
Tick ==
    /\ clock < MaxClock
    /\ clock' = clock + 1
    /\ UNCHANGED <<gpc, gen, storeVars, procVars, b32Vars>>

\* generate, lines 75-76: the time is read and the counter derived from it
GenerateCounter(interval) ==
    /\ gpc = "idle"
    /\ gpc' = "counter"
    /\ gen' = [interval |-> interval, time |-> get_time,
               counter |-> get_time \div interval, validity |-> 0, again |-> 0]
    /\ UNCHANGED <<clock, storeVars, procVars, b32Vars>>

\* generate, lines 85-89: time_to_next_generation reads the time again
GenerateValidity ==
    /\ gpc = "counter"
    /\ gpc' = "done"
    /\ gen' = [gen EXCEPT !.again = get_time,
                          !.validity = gen.interval - (get_time % gen.interval)]
    /\ UNCHANGED <<clock, storeVars, procVars, b32Vars>>

\* The OtpCode is dropped; the generator can be used again
GenerateAgain ==
    /\ gpc = "done"
    /\ gpc' = "idle"
    /\ gen' = [interval |-> 1, time |-> 0, counter |-> 0, validity |-> 0, again |-> 0]
    /\ UNCHANGED <<clock, storeVars, procVars, b32Vars>>

NextOtp ==
    \/ Tick
    \/ \E i \in Intervals : GenerateCounter(i)
    \/ GenerateValidity
    \/ GenerateAgain

SpecOtp == Init /\ [][NextOtp]_vars

\* C10: the counter and the validity that generate returns come from one
\* reading t of the clock: counter = t div interval, validity = interval -
\* (t mod interval), so the counter's window ends validity seconds after t.
C10_OneClockReading ==
    gpc = "done"
        => \E t \in {gen.time, gen.again} :
            /\ gen.counter = t \div gen.interval
            /\ gen.validity = gen.interval - (t % gen.interval)
            /\ (gen.counter + 1) * gen.interval = t + gen.validity

====
